---- MODULE Spec2Model ----
(***************************************************************************)
(* Ownership model of the thin-ptr crate (src/lib.rs, src/ext_alloc.rs).   *)
(*                                                                         *)
(* A handle value is one machine word: a pointer plus its compile-time     *)
(* type.  The type is written as a sequence of constructor names, outermost*)
(* first: <<"Thin", "Box">> is Thin<Box<T>>, <<"Rc">> is Rc<T>.  "BoxZ" is *)
(* Box<T> over a pointee with size_of::<T>() == 0.                         *)
(*                                                                         *)
(* The heap is a function from addresses to cells.  The allocator never    *)
(* hands a freed address out again, so a pointer to a freed cell stays     *)
(* recognisable as dangling.  Touching a freed cell is undefined behaviour:*)
(* it is recorded in ub, and since the program's behaviour is undefined    *)
(* from there on, no operation is modelled after it.                       *)
(***************************************************************************)
EXTENDS Integers, Sequences, FiniteSets, TLC

\* ---------------------------------------------------------------- bounds
\* The general specification: values in scope, heap cells, Thin layers.
MaxObj == 2
MaxAddr == 2
MaxNest == 2
\* The values in scope where only the shared kinds are used.
MaxSharedObj == 3
\* Zero-size values made; threads that clone a Thin<Arc<T>>.
MaxZst == 3
NumThreads == 3
\* The strong count up to which RawThin::clone_ptr is followed.
MaxCount == 3
\* The values in scope where Thin over every kind is made and dropped.
MaxDropObj == 1
\* The heap cells where Box's clone_from_raw is followed step by step.
MaxBoxAddr == 3

\* ------------------------------------------------------------- constants
\* NonNull::<T>::dangling(): the address of every Box over a zero-size T.
Dangling == 0

\* The referent of the borrowing kinds: storage the program does not own.
StaticAddr == -1
Value == {41, 42}
Wrappers == {"Thin", "RawThin", "CopyThin"}
Bases == {"Ref", "MutRef", "Box", "BoxZ", "Rc", "Arc"}
Thread == 1..NumThreads
\* The thread that owns the original Thin<Arc<T>>.
Main == NumThreads + 1

VARIABLES slots, heap, zst, ub, aborted, pc

vars == <<slots, heap, zst, ub, aborted, pc>>

\* The values in scope and the heap's addresses.
Slot == DOMAIN slots

Addr == DOMAIN heap \ {StaticAddr}

\* ---------------------------------------------------------------- values
Empty == [kind |-> <<>>, ptr |-> Dangling]

FreshCell == [st |-> "unused", cnt |-> 0, val |-> 0, drops |-> 0]

\* The machine state the library functions read and write.
Machine == [heap |-> heap, zst |-> zst, ub |-> ub]

\* The innermost constructor of a type: the std handle or reference.
Base(k) == IF k = <<>> THEN "none" ELSE k[Len(k)]

\* core::mem::size_of::<T>() for the pointee of a Box (ext_alloc.rs:38).
SizeOfT(b) == IF b = "BoxZ" THEN 0 ELSE 1

Touchable(m, p) == p \in DOMAIN m.heap /\ m.heap[p].st \in {"live", "static"}

\* ------------------------------------------------- std handles' own drop
\* A cell whose pointee was destroyed and whose storage went back to the
\* allocator: nothing of its contents is defined any more.
Freed(c) == [st |-> "freed", cnt |-> 0, val |-> 0, drops |-> c.drops + 1]

\* Drop for Box<T>: the pointee's destructor, then the deallocation, which
\* Box skips for a zero-size pointee.
BoxDrop(m, b, p) ==
  IF SizeOfT(b) = 0
  THEN [m EXCEPT !.zst.live = IF @ > 0 THEN @ - 1 ELSE 0,
                 !.zst.drops = @ + 1,
                 !.ub = IF m.zst.live > 0 THEN @ ELSE @ \cup {"double_free"}]
  ELSE IF Touchable(m, p)
  THEN [m EXCEPT !.heap[p] = Freed(@)]
  ELSE [m EXCEPT !.heap[p].drops = @ + 1, !.ub = @ \cup {"double_free"}]

\* The first half of Drop for Rc<T> / Arc<T>: the strong count goes down by
\* one (for Arc, one atomic fetch_sub).
DecrementStrongCount(m, p) ==
  IF Touchable(m, p)
  THEN [m EXCEPT !.heap[p].cnt = @ - 1]
  ELSE [m EXCEPT !.ub = @ \cup {"use_after_free"}]

\* The second half, run by the holder that saw the count reach zero: the
\* pointee is destroyed and the storage freed.
DropSlow(m, p) ==
  IF Touchable(m, p)
  THEN [m EXCEPT !.heap[p] = Freed(@)]
  ELSE [m EXCEPT !.heap[p].drops = @ + 1, !.ub = @ \cup {"double_free"}]

\* Drop for Rc<T> / Arc<T> run in one piece.
RcDrop(m, p) ==
  IF Touchable(m, p) /\ m.heap[p].cnt = 1
  THEN DropSlow(DecrementStrongCount(m, p), p)
  ELSE DecrementStrongCount(m, p)

\* ------------------------------------------------------------ lib.rs
\* core::mem::needs_drop::<P>(): true for a type with drop glue.  Thin has
\* a Drop impl; RawThin and CopyThin are Copy; references have no glue.
NeedsDrop(k) ==
  CASE Head(k) = "Thin" -> TRUE
    [] Head(k) \in {"RawThin", "CopyThin"} -> FALSE
    [] Head(k) \in {"Ref", "MutRef"} -> FALSE
    [] OTHER -> TRUE

RECURSIVE DropValue(_, _, _)
\* Mutant: the destructor rebuilds and drops the handle twice.
ThinDropInnerTwice(m, k, p) ==
  DropValue(DropValue(m, k, p), k, p)

\* RawThin::into_inner as Thin's destructor calls it: P::from_raw(self.ptr),
\* the result dropped at once.
ThinDropInner(m, k, p) ==
  DropValue(m, k, p)

\* Mutant: the destructor takes needs_drop the wrong way round.
ThinDropInverted(m, k, p) ==
  IF NeedsDrop(Tail(k)) THEN m ELSE ThinDropInner(m, Tail(k), p)

\* impl Drop for Thin<P>.
ThinDrop(m, k, p) ==
  IF NeedsDrop(Tail(k)) THEN ThinDropInner(m, Tail(k), p) ELSE m

\* The drop glue of a value of type k holding pointer p.
DropValue(m, k, p) ==
  CASE Head(k) = "Thin" -> ThinDrop(m, k, p)
    [] Head(k) \in {"RawThin", "CopyThin"} -> m
    [] Head(k) \in {"Ref", "MutRef"} -> m
    [] Head(k) \in {"Box", "BoxZ"} -> BoxDrop(m, Head(k), p)
    [] OTHER -> RcDrop(m, p)

\* ErasablePtr::into_raw for Thin<P>: the body reads self.raw.ptr, a Copy
\* field, so self is still owned when the function returns and its
\* destructor runs.
ThinIntoRaw(m, k, p) ==
  [m |-> ThinDrop(m, k, p), ptr |-> p]

\* ErasablePtr::into_raw, by handle kind.  The references take the address;
\* Box/Rc/Arc::into_raw give the pointee's address without running the
\* destructor; RawThin and CopyThin are Copy and return their field.
IntoRaw(m, k, p) ==
  CASE Head(k) = "Thin" -> ThinIntoRaw(m, k, p)
    [] OTHER -> [m |-> m, ptr |-> p]

\* ErasablePtr::from_raw: every implementation rebuilds the handle around
\* the pointer (unerase is a cast) and touches no storage.
FromRaw(k, p) == [kind |-> k, ptr |-> p]

\* ------------------------------------------------------ clone_from_raw
\* The allocator's next address: the lowest never handed out.
HasFree(h) == \E a \in DOMAIN h : h[a].st = "unused"

NextFree(h) == CHOOSE a \in DOMAIN h : h[a].st = "unused" /\ \A b \in DOMAIN h : b < a => h[b].st # "unused"

\* The closure `value` of Box's clone_from_raw: unerase, then T::clone on
\* the pointee read through the pointer.  Reading a freed pointee is
\* undefined.
BoxCloneValue(m, b, p) ==
  IF SizeOfT(b) = 0
  THEN [m |-> [m EXCEPT !.zst.clones = @ + 1], val |-> 0]
  ELSE IF Touchable(m, p)
  THEN [m |-> m, val |-> m.heap[p].val]
  ELSE [m |-> [m EXCEPT !.ub = @ \cup {"use_after_free"}], val |-> 0]

\* Mutant: no branch on size_of, every pointee goes to the allocator.
BoxCloneAlwaysAllocates(m, b, p, allocOk) ==
  IF ~allocOk
  THEN [m |-> m, ptr |-> p, abort |-> TRUE]
  ELSE LET a == NextFree(m.heap)
           m1 == [m EXCEPT !.heap[a].st = "live"]
           c == BoxCloneValue(m1, b, p)
       IN [m |-> [c.m EXCEPT !.heap[a].val = c.val], ptr |-> a, abort |-> FALSE]

\* Mutant: a null from the allocator is passed on instead of being fatal.
BoxCloneIgnoresNull(m, b, p, allocOk) ==
  IF SizeOfT(b) = 0
  THEN LET c == BoxCloneValue(m, b, p)
       IN [m |-> [c.m EXCEPT !.zst.live = @ + 1], ptr |-> Dangling, abort |-> FALSE]
  ELSE IF ~allocOk
  THEN [m |-> m, ptr |-> Dangling, abort |-> FALSE]
  ELSE LET a == NextFree(m.heap)
           m1 == [m EXCEPT !.heap[a].st = "live"]
           c == BoxCloneValue(m1, b, p)
       IN [m |-> [c.m EXCEPT !.heap[a].val = c.val], ptr |-> a, abort |-> FALSE]

\* impl CloneFromRaw for Box<T>.  allocOk is the allocator's answer.
BoxCloneFromRaw(m, b, p, allocOk) ==
  IF SizeOfT(b) = 0
  THEN LET c == BoxCloneValue(m, b, p)
       IN [m |-> [c.m EXCEPT !.zst.live = @ + 1], ptr |-> Dangling, abort |-> FALSE]
  ELSE IF ~allocOk
  THEN [m |-> m, ptr |-> p, abort |-> TRUE]
  ELSE LET a == NextFree(m.heap)
           m1 == [m EXCEPT !.heap[a].st = "live"]
           c == BoxCloneValue(m1, b, p)
       IN [m |-> [c.m EXCEPT !.heap[a].val = c.val], ptr |-> a, abort |-> FALSE]

\* Rc::increment_strong_count / Arc::increment_strong_count on the cell.
IncrementStrongCount(m, p) ==
  IF Touchable(m, p)
  THEN [m EXCEPT !.heap[p].cnt = @ + 1]
  ELSE [m EXCEPT !.ub = @ \cup {"use_after_free"}]

\* Mutant: the pass-through body of the Copy kinds, no count taken.
RcCloneNoIncrement(m, p) ==
  [m |-> m, ptr |-> p, abort |-> FALSE]

\* impl CloneFromRaw for Rc<T> and for Arc<T>: count up, same pointer.
RcCloneFromRaw(m, p) ==
  [m |-> IncrementStrongCount(m, p), ptr |-> p, abort |-> FALSE]

\* Mutant: the Copy kinds' duplication takes a count like Rc's.
PassThruIncrements(m, p) ==
  [m |-> IncrementStrongCount(m, p), ptr |-> p, abort |-> FALSE]

\* The pass-through impls (&T, RawThin<P>, CopyThin<P>).
PassThruCloneFromRaw(m, p) ==
  [m |-> m, ptr |-> p, abort |-> FALSE]

\* Mutant: CloneFromRaw implemented for &mut T as well.
RECURSIVE HasCloneFromRawForAll(_)
HasCloneFromRawForAll(k) ==
  CASE Head(k) = "Thin" -> HasCloneFromRawForAll(Tail(k))
    [] OTHER -> TRUE

\* Which kinds implement CloneFromRaw.  &mut T does not (it is not Clone).
RECURSIVE HasCloneFromRaw(_)
HasCloneFromRaw(k) ==
  CASE Head(k) = "Thin" -> HasCloneFromRaw(Tail(k))
    [] Head(k) = "MutRef" -> FALSE
    [] OTHER -> TRUE

\* CloneFromRaw::clone_from_raw, by handle kind; Thin<P> defers to P.
RECURSIVE CloneFromRaw(_, _, _, _)
CloneFromRaw(m, k, p, allocOk) ==
  CASE Head(k) = "Thin" -> CloneFromRaw(m, Tail(k), p, allocOk)
    [] Head(k) \in {"Ref", "RawThin", "CopyThin"} -> PassThruCloneFromRaw(m, p)
    [] Head(k) \in {"Box", "BoxZ"} -> BoxCloneFromRaw(m, Head(k), p, allocOk)
    [] OTHER -> RcCloneFromRaw(m, p)

\* Which kinds implement Deref / DerefMut (Thin<P> when P does).
RECURSIVE HasDeref(_)
HasDeref(k) ==
  CASE Head(k) = "Thin" -> HasDeref(Tail(k))
    [] Head(k) \in {"RawThin", "CopyThin"} -> FALSE
    [] OTHER -> TRUE

RECURSIVE HasDerefMut(_)
HasDerefMut(k) ==
  CASE Head(k) = "Thin" -> HasDerefMut(Tail(k))
    [] Head(k) \in {"MutRef", "Box", "BoxZ"} -> TRUE
    [] OTHER -> FALSE

\* Mutant: CopyThin::new without its Copy bound.
IsCopyForAll(k) == Len(k) > 0

\* P: Copy, the bound of CopyThin::new.
IsCopy(k) == Head(k) \in {"Ref", "RawThin", "CopyThin"}

\* ------------------------------------------------------------- state
TypeOK ==
  /\ \A s \in Slot : slots[s].ptr \in Addr \cup {StaticAddr, Dangling}
  /\ \A s \in Slot : \A i \in 1..Len(slots[s].kind) : slots[s].kind[i] \in Wrappers \cup Bases
  /\ zst \in [live : Nat, clones : Nat, drops : Nat]
  /\ ub \subseteq {"use_after_free", "double_free"}
  /\ aborted \in BOOLEAN

\* Before the program runs: nothing in scope, nothing allocated.
InitWith(nObj, nAddr) ==
  /\ slots = [s \in 1..nObj |-> Empty]
  /\ heap = [a \in (1..nAddr) \cup {StaticAddr} |-> IF a = StaticAddr THEN [FreshCell EXCEPT !.st = "static", !.val = 42] ELSE FreshCell]
  /\ zst = [live |-> 0, clones |-> 0, drops |-> 0]
  /\ ub = {}
  /\ aborted = FALSE
  /\ pc = <<>>

Init == InitWith(MaxObj, MaxAddr)


\* Write a machine state back.
Commit(m) ==
  /\ heap' = m.heap
  /\ zst' = m.zst
  /\ ub' = m.ub

\* The zero-size values made so far, the model's cap on making more.
ZstMade == zst.live + zst.drops

\* No operation is modelled after a fatal abort or undefined behaviour.
Running == ~aborted /\ ub = {}

\* ------------------------------------------------------------ actions
\* A new value takes the first name out of use (names are interchangeable).
IsNextSlot(s) == slots[s] = Empty /\ \A u \in Slot : u < s => slots[u] # Empty

\* The caller makes a handle: &T / &mut T of the static referent under the
\* borrow rules, or Box::new / Rc::new / Arc::new of the value 42.
NewHandle(s, b) ==
  /\ Running
  /\ IsNextSlot(s)
  /\ CASE b = "Ref" -> \A t \in Slot : slots[t] = Empty \/ Base(slots[t].kind) # "MutRef"
       [] b = "MutRef" -> \A t \in Slot : slots[t] = Empty \/ Base(slots[t].kind) \notin {"Ref", "MutRef"}
       [] b = "BoxZ" -> ZstMade < MaxZst
       [] OTHER -> HasFree(heap)
  /\ LET a == CASE b \in {"Ref", "MutRef"} -> StaticAddr
                [] b = "BoxZ" -> Dangling
                [] OTHER -> NextFree(heap)
         m == Machine
     IN /\ slots' = [slots EXCEPT ![s] = [kind |-> <<b>>, ptr |-> a]]
        /\ Commit(CASE b \in {"Ref", "MutRef"} -> m
                    [] b = "BoxZ" -> [m EXCEPT !.zst.live = @ + 1]
                    [] OTHER -> [m EXCEPT !.heap[a] = [st |-> "live", cnt |-> IF b = "Box" THEN 0 ELSE 1, val |-> 42, drops |-> 0]])
  /\ UNCHANGED <<aborted, pc>>

\* Rc::clone / Arc::clone on a bare handle, to start from any count.
HandleClone(s, t) ==
  /\ Running
  /\ slots[s].kind \in {<<"Rc">>, <<"Arc">>}
  /\ IsNextSlot(t)
  /\ slots' = [slots EXCEPT ![t] = slots[s]]
  /\ Commit(IncrementStrongCount(Machine, slots[s].ptr))
  /\ UNCHANGED <<aborted, pc>>

\* RawThin::new, and Thin::new / CopyThin::new which call it.  depth caps
\* the layers of wrapper the model builds.
Wrap(s, w, depth) ==
  /\ Running
  /\ slots[s] # Empty
  /\ Len(slots[s].kind) <= depth
  /\ w = "CopyThin" => IsCopy(slots[s].kind)
  /\ LET r == IntoRaw(Machine, slots[s].kind, slots[s].ptr)
     IN /\ slots' = [slots EXCEPT ![s] = [kind |-> <<w>> \o slots[s].kind, ptr |-> r.ptr]]
        /\ Commit(r.m)
  /\ UNCHANGED <<aborted, pc>>

ThinNew(s, depth) == Wrap(s, "Thin", depth)

RawThinNew(s, depth) == Wrap(s, "RawThin", depth)

CopyThinNew(s, depth) == Wrap(s, "CopyThin", depth)

\* RawThin::into_inner, and Thin::into_inner / CopyThin::into_inner which
\* call it; Thin::into_inner forgets self first, so no destructor runs.
Unwrap(s, w) ==
  /\ Running
  /\ slots[s] # Empty
  /\ Head(slots[s].kind) = w
  /\ slots' = [slots EXCEPT ![s] = FromRaw(Tail(slots[s].kind), slots[s].ptr)]
  /\ Commit(Machine)
  /\ UNCHANGED <<aborted, pc>>

ThinIntoInner(s) == Unwrap(s, "Thin")

RawThinIntoInner(s) == Unwrap(s, "RawThin")

CopyThinIntoInner(s) == Unwrap(s, "CopyThin")

\* impl Clone for Thin<P>: RawThin::clone_ptr, which is P::clone_from_raw.
ThinClone(s, t, allocOk) ==
  /\ Running
  /\ slots[s] # Empty
  /\ Head(slots[s].kind) = "Thin"
  /\ HasCloneFromRaw(Tail(slots[s].kind))
  /\ IsNextSlot(t)
  /\ allocOk => HasFree(heap)
  /\ Base(slots[s].kind) = "BoxZ" => ZstMade < MaxZst
  /\ LET r == CloneFromRaw(Machine, Tail(slots[s].kind), slots[s].ptr, allocOk)
     IN /\ aborted' = r.abort
        /\ slots' = IF r.abort THEN slots ELSE [slots EXCEPT ![t] = [kind |-> slots[s].kind, ptr |-> r.ptr]]
        /\ Commit(r.m)
  /\ UNCHANGED pc

\* Copy / Clone of RawThin<P>, CopyThin<P> and &T: the word is copied.
CopyValue(s, t) ==
  /\ Running
  /\ slots[s] # Empty
  /\ IsCopy(slots[s].kind)
  /\ IsNextSlot(t)
  /\ slots' = [slots EXCEPT ![t] = slots[s]]
  /\ Commit(Machine)
  /\ UNCHANGED <<aborted, pc>>

\* RawThin::clone_ptr: P::clone_from_raw on the stored pointer.  Unsafe:
\* the caller vouches for the RawThin; a stale one is not ruled out here.
RawThinClonePtr(s, t, allocOk) ==
  /\ Running
  /\ slots[s] # Empty
  /\ Head(slots[s].kind) = "RawThin"
  /\ HasCloneFromRaw(Tail(slots[s].kind))
  /\ IsNextSlot(t)
  /\ heap[slots[s].ptr].cnt < MaxCount
  /\ allocOk => HasFree(heap)
  /\ LET r == CloneFromRaw(Machine, Tail(slots[s].kind), slots[s].ptr, allocOk)
     IN /\ aborted' = r.abort
        /\ slots' = IF r.abort THEN slots ELSE [slots EXCEPT ![t] = [kind |-> slots[s].kind, ptr |-> r.ptr]]
        /\ Commit(r.m)
  /\ UNCHANGED pc

\* A value goes out of scope.
DropSlot(s) ==
  /\ Running
  /\ slots[s] # Empty
  /\ slots' = [slots EXCEPT ![s] = Empty]
  /\ Commit(DropValue(Machine, slots[s].kind, slots[s].ptr))
  /\ UNCHANGED <<aborted, pc>>

\* impl Deref for Thin<P>: a read through unerase(self.raw.ptr).
ThinDeref(s) ==
  /\ Running
  /\ slots[s] # Empty
  /\ Head(slots[s].kind) = "Thin"
  /\ HasDeref(Tail(slots[s].kind))
  /\ LET p == slots[s].ptr
         m == Machine
     IN Commit(CASE Base(slots[s].kind) = "BoxZ" -> m
                 [] Touchable(m, p) -> m
                 [] OTHER -> [m EXCEPT !.ub = @ \cup {"use_after_free"}])
  /\ UNCHANGED <<slots, aborted, pc>>

\* impl DerefMut for Thin<P>: a write through unerase(self.raw.ptr).
ThinDerefMut(s, v) ==
  /\ Running
  /\ slots[s] # Empty
  /\ Head(slots[s].kind) = "Thin"
  /\ HasDerefMut(Tail(slots[s].kind))
  /\ LET p == slots[s].ptr
         m == Machine
     IN Commit(CASE Base(slots[s].kind) = "BoxZ" -> m
                 [] Touchable(m, p) -> [m EXCEPT !.heap[p].val = v]
                 [] OTHER -> [m EXCEPT !.ub = @ \cup {"use_after_free"}])
  /\ UNCHANGED <<slots, aborted, pc>>

\* The safe operations of Thin over every handle kind, Thin itself included.
Next ==
  \/ \E s \in Slot, b \in Bases : NewHandle(s, b)
  \/ \E s, t \in Slot : HandleClone(s, t)
  \/ \E s \in Slot : ThinNew(s, MaxNest)
  \/ \E s \in Slot : ThinIntoInner(s)
  \/ \E s, t \in Slot, allocOk \in BOOLEAN : ThinClone(s, t, allocOk)
  \/ \E s \in Slot : DropSlot(s)
  \/ \E s \in Slot : ThinDeref(s)
  \/ \E s \in Slot, v \in Value : ThinDerefMut(s, v)

Spec == Init /\ [][Next]_vars

\* The same operations with Thin over the std handle kinds only.
NextFlat ==
  \/ \E s \in Slot, b \in Bases : NewHandle(s, b)
  \/ \E s, t \in Slot : HandleClone(s, t)
  \/ \E s \in Slot : ThinNew(s, 1)
  \/ \E s \in Slot : ThinIntoInner(s)
  \/ \E s, t \in Slot, allocOk \in BOOLEAN : ThinClone(s, t, allocOk)
  \/ \E s \in Slot : DropSlot(s)
  \/ \E s \in Slot : ThinDeref(s)

SpecFlat == Init /\ [][NextFlat]_vars

\* The same operations again, over Rc<T> and Arc<T> only, with more values
\* in scope.
InitShared == InitWith(MaxSharedObj, MaxAddr)

NextShared ==
  \/ \E s \in Slot, b \in {"Rc", "Arc"} : NewHandle(s, b)
  \/ \E s, t \in Slot : HandleClone(s, t)
  \/ \E s \in Slot : ThinNew(s, 1)
  \/ \E s \in Slot : ThinIntoInner(s)
  \/ \E s, t \in Slot : ThinClone(s, t, TRUE)
  \/ \E s \in Slot : DropSlot(s)
  \/ \E s \in Slot : ThinDeref(s)

SpecShared == InitShared /\ [][NextShared]_vars

\* CopyThin over the Copy handle kinds: &T, RawThin<P> and CopyThin<P>.
InitCopy == InitWith(MaxSharedObj, MaxAddr)

NextCopy ==
  \/ \E s \in Slot, b \in {"Ref", "Box"} : NewHandle(s, b)
  \/ \E s \in Slot : RawThinNew(s, 1)
  \/ \E s \in Slot : CopyThinNew(s, 2)
  \/ \E s, t \in Slot : CopyValue(s, t)
  \/ \E s \in Slot : CopyThinIntoInner(s)
  \/ \E s \in Slot : DropSlot(s)

SpecCopy == InitCopy /\ [][NextCopy]_vars

\* RawThin over Box, Rc and RawThin itself, with its unsafe operations
\* called whether or not the caller's obligation holds.
NextRaw ==
  \/ \E s \in Slot, b \in {"Box", "Rc"} : NewHandle(s, b)
  \/ \E s \in Slot : RawThinNew(s, 2)
  \/ \E s, t \in Slot : CopyValue(s, t)
  \/ \E s, t \in Slot, allocOk \in BOOLEAN : RawThinClonePtr(s, t, allocOk)
  \/ \E s \in Slot : RawThinIntoInner(s)
  \/ \E s \in Slot : DropSlot(s)

SpecRaw == Init /\ [][NextRaw]_vars

\* Thin over every handle kind, RawThin, CopyThin and Thin included, made
\* and dropped.
InitDrop == InitWith(MaxDropObj, MaxAddr)

NextDrop ==
  \/ \E s \in Slot, b \in Bases : NewHandle(s, b)
  \/ \E s \in Slot : RawThinNew(s, 1)
  \/ \E s \in Slot : CopyThinNew(s, 1)
  \/ \E s \in Slot : ThinNew(s, 2)
  \/ \E s \in Slot : DropSlot(s)

SpecDrop == InitDrop /\ [][NextDrop]_vars

\* ------------------------------------ Box's clone_from_raw, step by step
\* One call of clone() on a Thin<Box<T>> over a sized T, statement by
\* statement.  pc.at is the position in the call ("idle" outside it), pc.src
\* the Thin cloned, pc.dst the name the result gets, pc.ptr the local `ptr`,
\* pc.val the value T::clone produced, pc.log the statements the latest call
\* has run.
Idle == [at |-> "idle", src |-> 0, dst |-> 0, ptr |-> Dangling, val |-> 0, log |-> <<>>]

InitBox ==
  /\ slots = [s \in 1..MaxObj |-> Empty]
  /\ heap = [a \in (1..MaxBoxAddr) \cup {StaticAddr} |-> IF a = StaticAddr THEN [FreshCell EXCEPT !.st = "static", !.val = 42] ELSE FreshCell]
  /\ zst = [live |-> 0, clones |-> 0, drops |-> 0]
  /\ ub = {}
  /\ aborted = FALSE
  /\ pc = Idle

\* Mutant: the produced value is dropped instead of written.
WriteNothing(h, a, v) == h

\* ptr.as_ptr().write(v): the value moves into the new storage.
PtrWrite(h, a, v) == [h EXCEPT ![a].val = v]

\* Thin::clone -> RawThin::clone_ptr -> Box's clone_from_raw entered; the
\* closure is built, size_of::<T>() is not zero.
BoxCloneCall(s, t) ==
  /\ Running
  /\ pc.at = "idle"
  /\ slots[s].kind = <<"Thin", "Box">>
  /\ SizeOfT(Base(slots[s].kind)) # 0
  /\ IsNextSlot(t)
  /\ pc' = [Idle EXCEPT !.at = "layout", !.src = s, !.dst = t]
  /\ UNCHANGED <<slots, heap, zst, ub, aborted>>

\* alloc(layout): new storage, or null and handle_alloc_error.
BoxCloneAlloc(allocOk) ==
  /\ Running
  /\ pc.at = "layout"
  /\ allocOk => HasFree(heap)
  /\ IF allocOk
     THEN /\ heap' = [heap EXCEPT ![NextFree(heap)].st = "live"]
          /\ pc' = [pc EXCEPT !.at = "allocated", !.ptr = NextFree(heap), !.log = Append(@, "alloc")]
          /\ UNCHANGED aborted
     ELSE /\ aborted' = TRUE
          /\ UNCHANGED <<heap, pc>>
  /\ UNCHANGED <<slots, zst, ub>>

\* value(): T::clone on the source pointee.  T::clone is the pointee's code
\* and may panic; the unwinding leaves the function, and `ptr`, a NonNull,
\* has no destructor.
BoxCloneRunClone(ok) ==
  /\ Running
  /\ pc.at = "allocated"
  /\ LET c == BoxCloneValue(Machine, "Box", slots[pc.src].ptr)
     IN /\ Commit(c.m)
        /\ pc' = IF ok
                 THEN [pc EXCEPT !.at = "cloned", !.val = c.val, !.log = Append(@, "clone")]
                 ELSE [Idle EXCEPT !.log = Append(pc.log, "clone")]
  /\ UNCHANGED <<slots, aborted>>

\* ptr.as_ptr().write(..), the pointer returned and wrapped by Thin::clone.
BoxCloneWrite ==
  /\ Running
  /\ pc.at = "cloned"
  /\ heap' = PtrWrite(heap, pc.ptr, pc.val)
  /\ slots' = [slots EXCEPT ![pc.dst] = [kind |-> slots[pc.src].kind, ptr |-> pc.ptr]]
  /\ pc' = [Idle EXCEPT !.log = Append(pc.log, "write")]
  /\ UNCHANGED <<zst, ub, aborted>>

NextBox ==
  \/ \E s \in Slot : pc.at = "idle" /\ NewHandle(s, "Box")
  \/ \E s \in Slot : pc.at = "idle" /\ ThinNew(s, 1)
  \/ \E s \in Slot, v \in Value : pc.at = "idle" /\ ThinDerefMut(s, v)
  \/ \E s \in Slot : pc.at = "idle" /\ DropSlot(s)
  \/ \E s, t \in Slot : BoxCloneCall(s, t)
  \/ \E allocOk \in BOOLEAN : BoxCloneAlloc(allocOk)
  \/ \E ok \in BOOLEAN : BoxCloneRunClone(ok)
  \/ BoxCloneWrite

SpecBox == InitBox /\ [][NextBox]_vars

\* ------------------------------------------------- Thin<Arc<T>> shared
\* One Thin<Arc<T>> over the value 42, owned by Main; every other thread
\* clones it through a shared borrow, may read through the clone, and drops
\* it.  A thread is at "start", has run unerase ("unerased"), owns a clone
\* ("owns", or "read" once it has read through it), has decremented the
\* count to zero and is about to free ("last"), or is "done".  Main owns the
\* original from the start.
InitArc ==
  /\ slots = [s \in {1} |-> [kind |-> <<"Thin", "Arc">>, ptr |-> 1]]
  /\ heap = [a \in {1, StaticAddr} |-> IF a = StaticAddr THEN [FreshCell EXCEPT !.st = "static", !.val = 42] ELSE [st |-> "live", cnt |-> 1, val |-> 42, drops |-> 0]]
  /\ zst = [live |-> 0, clones |-> 0, drops |-> 0]
  /\ ub = {}
  /\ aborted = FALSE
  /\ pc = [i \in Thread \cup {Main} |-> IF i = Main THEN "owns" ELSE "start"]

\* Arc's clone_from_raw, first statement: T::unerase(value), a cast.
ThreadUnerase(t) ==
  /\ Running
  /\ pc[t] = "start"
  /\ pc' = [pc EXCEPT ![t] = "unerased"]
  /\ UNCHANGED <<slots, heap, zst, ub, aborted>>

\* Arc's clone_from_raw, second statement: the atomic increment.
ThreadIncrement(t) ==
  /\ Running
  /\ pc[t] = "unerased"
  /\ pc' = [pc EXCEPT ![t] = "owns"]
  /\ Commit(CloneFromRaw(Machine, slots[1].kind, slots[1].ptr, TRUE).m)
  /\ UNCHANGED <<slots, aborted>>

\* Deref for Thin<Arc<T>> on the thread's own instance.
ThreadDeref(i) ==
  /\ Running
  /\ pc[i] = "owns"
  /\ pc' = [pc EXCEPT ![i] = "read"]
  /\ Commit(IF Touchable(Machine, 1) THEN Machine ELSE [Machine EXCEPT !.ub = @ \cup {"use_after_free"}])
  /\ UNCHANGED <<slots, aborted>>

\* Drop for Thin<Arc<T>>, the atomic decrement.  Main's original is
\* borrowed by every clone in progress, so it outlives them.
ThreadDecrement(i) ==
  /\ Running
  /\ pc[i] \in {"owns", "read"}
  /\ i = Main => \A t \in Thread : pc[t] \notin {"start", "unerased"}
  /\ pc' = [pc EXCEPT ![i] = IF heap[1].cnt = 1 THEN "last" ELSE "done"]
  /\ Commit(DecrementStrongCount(Machine, 1))
  /\ UNCHANGED <<slots, aborted>>

\* Drop for Thin<Arc<T>>, by the thread whose decrement reached zero.
ThreadFree(i) ==
  /\ Running
  /\ pc[i] = "last"
  /\ pc' = [pc EXCEPT ![i] = "done"]
  /\ Commit(DropSlow(Machine, 1))
  /\ UNCHANGED <<slots, aborted>>

NextArc ==
  \/ \E t \in Thread : ThreadUnerase(t)
  \/ \E t \in Thread : ThreadIncrement(t)
  \/ \E i \in Thread \cup {Main} : ThreadDeref(i)
  \/ \E i \in Thread \cup {Main} : ThreadDecrement(i)
  \/ \E i \in Thread \cup {Main} : ThreadFree(i)

SpecArc == InitArc /\ [][NextArc]_vars

\* ------------------------------------------------------------- claims
\* The values that hold a unit of ownership of heap cell a.
Holders(a) == {s \in Slot : slots[s] # Empty /\ slots[s].ptr = a /\ Base(slots[s].kind) \in {"Box", "Rc", "Arc"}}

\* The units of ownership outstanding on cell a: one for a live Box
\* allocation, the strong count for a live Rc / Arc allocation.
Units(a) == IF heap[a].st # "live" THEN 0 ELSE IF heap[a].cnt = 0 THEN 1 ELSE heap[a].cnt

\* The heap after exactly one release of the unit at p.
ReleasedOnce(h, p) == IF h[p].cnt <= 1 THEN [h EXCEPT ![p] = Freed(@)] ELSE [h EXCEPT ![p].cnt = @ - 1]

\* Whether the storage a value addresses is still there.
PointeeAlive(x) == IF Base(x.kind) = "BoxZ" THEN zst.live > 0 ELSE Touchable(Machine, x.ptr)

\* Steps, told apart by what they do to the value named s.
IsWrapStep(s) == slots[s] # Empty /\ slots'[s].kind = <<"Thin">> \o slots[s].kind

IsUnwrapStep(s) == slots[s] # Empty /\ slots'[s] # Empty /\ slots'[s].kind = Tail(slots[s].kind)

IsDropStep(s) == slots[s] # Empty /\ slots'[s] = Empty

IsCloneStep(t) == slots[t] = Empty /\ slots'[t] # Empty /\ Head(slots'[t].kind) = "Thin"

\* C1: a Thin made by Thin::new over Box, Rc or Arc accounts for exactly
\* one release of its handle: wrapping releases nothing; going out of scope
\* releases once; into_inner releases nothing and hands back the handle,
\* whose own drop is then the one release.  A pointee's destructor has run
\* once when its storage is freed and not at all before, never twice.
C1_State ==
  /\ ub = {}
  /\ \A a \in Addr : heap[a].drops <= 1 /\ (heap[a].st = "freed" <=> heap[a].drops = 1)

C1_Step(s) ==
  LET x == slots[s]
  IN /\ (Len(x.kind) = 1 /\ Base(x.kind) \in {"Box", "Rc", "Arc"} /\ IsWrapStep(s)) => (heap' = heap /\ slots'[s].ptr = x.ptr)
     /\ (Len(x.kind) = 2 /\ Base(x.kind) \in {"Box", "Rc", "Arc"} /\ IsUnwrapStep(s)) => (heap' = heap /\ slots'[s].ptr = x.ptr)
     /\ (Len(x.kind) \in {1, 2} /\ Base(x.kind) \in {"Box", "Rc", "Arc"} /\ IsDropStep(s)) => heap' = ReleasedOnce(heap, x.ptr)

C1_DestroyedExactlyOnce == [] C1_State /\ [][\A s \in Slot : C1_Step(s)]_vars

C1_Witness == \E s \in Slot, a \in Addr : slots[s].kind = <<"Thin", "Box">> /\ heap[a].st = "freed" /\ heap[a].drops = 1

\* C2: under the safe Thin operations every pointer held stands for exactly
\* one outstanding unit of ownership: each heap cell has as many units as
\* holders (so no leak once nothing is held) and nothing is released twice.
C2_OneUnitPerPointer ==
  /\ "double_free" \notin ub
  /\ \A a \in Addr : Cardinality(Holders(a)) = Units(a)
  /\ zst.live = Cardinality({s \in Slot : Base(slots[s].kind) = "BoxZ"})

\* C3: the storage a live Thin addresses has not been released, for every
\* P including P = Thin<Q>, so deref, deref_mut and clone never touch
\* released storage.
C3_ThinPointeeAlive ==
  /\ "use_after_free" \notin ub
  /\ \A s \in Slot : (slots[s] # Empty /\ Head(slots[s].kind) = "Thin") => PointeeAlive(slots[s])

\* C4: into_raw, as the constructors call it, runs no destruction: the
\* storage and the counts are as before and the pointer is the handle's.
C4_IntoRawKeepsUnit == [][\A s \in Slot : IsWrapStep(s) => (heap' = heap /\ zst' = zst /\ slots'[s].ptr = slots[s].ptr)]_vars

\* C5: from_raw(into_raw(h)) is h again (same kind, same address) and leaves
\* the storage, its contents and every count as they were.
C5_RoundTripSame ==
  \A s \in Slot : slots[s] # Empty =>
    LET r == IntoRaw(Machine, slots[s].kind, slots[s].ptr)
    IN FromRaw(slots[s].kind, r.ptr) = slots[s] /\ r.m = Machine

\* C6: for Rc and Arc the strong count is the number of holders at every
\* moment: wrapping and unwrapping leave it alone, a duplication adds one
\* at the same address without allocating, a release takes one away, and
\* the pointee is destroyed and freed exactly once, by the release that
\* takes the count to zero.
C6_State ==
  /\ ub = {}
  /\ \A a \in Addr :
       /\ heap[a].st = "live" => (heap[a].cnt = Cardinality(Holders(a)) /\ heap[a].cnt >= 1 /\ heap[a].drops = 0)
       /\ heap[a].st = "freed" => (Holders(a) = {} /\ heap[a].drops = 1)
       /\ heap[a].st = "unused" => Holders(a) = {}

C6_Step ==
  /\ \A s \in Slot : (IsWrapStep(s) \/ IsUnwrapStep(s)) => (heap' = heap /\ slots'[s].ptr = slots[s].ptr)
  /\ \A s \in Slot : IsDropStep(s) => heap' = ReleasedOnce(heap, slots[s].ptr)
  /\ \A t \in Slot : IsCloneStep(t) =>
       \E s \in Slot : /\ slots[s].kind = slots'[t].kind
                       /\ slots'[t].ptr = slots[s].ptr
                       /\ heap' = [heap EXCEPT ![slots[s].ptr].cnt = @ + 1]

C6_SharedCountIsHolders == [] C6_State /\ [][C6_Step]_vars

C6_Witness == \E a, b \in Addr : heap[a].st = "freed" /\ heap[a].drops = 1 /\ heap[b].cnt = 3 /\ \E s \in Slot : slots[s].ptr = b /\ Head(slots[s].kind) = "Thin"

\* C7: one Thin<Arc<T>> cloned by the threads while clones are dropped in
\* any interleaving: the count is the number of instances alive (no lost
\* update), nothing touches freed storage, the storage is freed only when
\* every instance has been released, and once all are done it has been
\* freed exactly once.
C7_ArcRaceFreesOnce ==
  /\ ub = {}
  /\ heap[1].drops <= 1
  /\ heap[1].st = "live" => heap[1].cnt = Cardinality({i \in DOMAIN pc : pc[i] \in {"owns", "read"}})
  /\ heap[1].st = "freed" => \A i \in DOMAIN pc : pc[i] = "done"
  /\ (\A i \in DOMAIN pc : pc[i] = "done") => (heap[1].st = "freed" /\ heap[1].drops = 1)

C7_Witness == heap[1].st = "freed" /\ heap[1].drops = 1 /\ Cardinality(DOMAIN pc) = NumThreads + 1 /\ \A i \in DOMAIN pc : pc[i] = "done"

\* C8: duplicating a Box over a zero-size pointee allocates nothing, with
\* or without memory to allocate from, runs the pointee's clone once and
\* its destructor not at all, and returns the dangling sentinel; releasing
\* such a box runs the destructor once and frees nothing.
C8_State ==
  /\ ub = {}
  /\ zst.live = Cardinality({s \in Slot : Base(slots[s].kind) = "BoxZ"})
  /\ \A s \in Slot : Base(slots[s].kind) = "BoxZ" =>
       /\ slots[s].ptr = Dangling
       /\ \A allocOk \in BOOLEAN :
            CloneFromRaw(Machine, <<"BoxZ">>, slots[s].ptr, allocOk) = [m |-> [Machine EXCEPT !.zst.clones = @ + 1, !.zst.live = @ + 1], ptr |-> Dangling, abort |-> FALSE]

C8_Step ==
  /\ \A t \in Slot : (IsCloneStep(t) /\ Base(slots'[t].kind) = "BoxZ") =>
       (zst' = [zst EXCEPT !.clones = @ + 1, !.live = @ + 1] /\ heap' = heap /\ slots'[t].ptr = Dangling /\ ~aborted')
  /\ \A s \in Slot : (IsDropStep(s) /\ Base(slots[s].kind) = "BoxZ") =>
       (zst' = [zst EXCEPT !.drops = @ + 1, !.live = @ - 1] /\ heap' = heap)
  /\ (\A s \in Slot : ~IsDropStep(s)) => zst'.drops = zst.drops
  /\ (\A t \in Slot : ~IsCloneStep(t)) => zst'.clones = zst.clones

C8_ZeroSizeDuplication == [] C8_State /\ [][C8_Step]_vars

C8_Witness == zst.clones = 2 /\ zst.drops = 3 /\ zst.live = 0 /\ \A a \in Addr : heap[a].st = "unused"

\* C9 as stated: for &T and for &mut T alike the duplication exists and is
\* the identity on the pointer, with no effect on anything else.
C9_BorrowDupIdentity ==
  \A s \in Slot : (Len(slots[s].kind) = 2 /\ Head(slots[s].kind) = "Thin" /\ Base(slots[s].kind) \in {"Ref", "MutRef"}) =>
    /\ HasCloneFromRaw(Tail(slots[s].kind))
    /\ \A allocOk \in BOOLEAN : CloneFromRaw(Machine, Tail(slots[s].kind), slots[s].ptr, allocOk) = [m |-> Machine, ptr |-> slots[s].ptr, abort |-> FALSE]

\* C9 amended: for &T the duplication is the identity on the pointer, with
\* no effect on anything else, and cannot fail; &mut T has no duplication,
\* so no Thin<&mut T> is ever made by clone.
C9_State ==
  \A s \in Slot : (Len(slots[s].kind) = 2 /\ Head(slots[s].kind) = "Thin") =>
    /\ Base(slots[s].kind) = "MutRef" => ~HasCloneFromRaw(Tail(slots[s].kind))
    /\ Base(slots[s].kind) = "Ref" =>
         /\ HasCloneFromRaw(Tail(slots[s].kind))
         /\ \A allocOk \in BOOLEAN : CloneFromRaw(Machine, Tail(slots[s].kind), slots[s].ptr, allocOk) = [m |-> Machine, ptr |-> slots[s].ptr, abort |-> FALSE]

C9_Step ==
  \A t \in Slot : IsCloneStep(t) =>
    /\ Base(slots'[t].kind) # "MutRef"
    /\ Base(slots'[t].kind) = "Ref" =>
         /\ \E s \in Slot : slots[s] = slots'[t]
         /\ UNCHANGED <<heap, zst, ub, aborted>>

C9_SharedBorrowDupIdentity == [] C9_State /\ [][C9_Step]_vars

C9_Witness == \E s, t \in Slot : s # t /\ slots[s].kind = <<"Thin", "Ref">> /\ slots[t] = slots[s]

\* C10: a failed allocation in Box's duplication over a sized pointee ends
\* the program: no pointer comes back, nothing else changes and nothing
\* runs afterwards.  Nothing else ends it, and no operation whose
\* precondition holds has another error outcome.
C10_State ==
  /\ ub = {}
  /\ \A s \in Slot : (slots[s] # Empty /\ Head(slots[s].kind) = "Thin" /\ HasCloneFromRaw(Tail(slots[s].kind))) =>
       LET r == CloneFromRaw(Machine, Tail(slots[s].kind), slots[s].ptr, FALSE)
       IN IF Base(slots[s].kind) = "Box" THEN r.abort /\ r.m = Machine ELSE ~r.abort

C10_Step ==
  /\ ~aborted
  /\ aborted' => /\ UNCHANGED <<slots, heap, zst, ub>>
                 /\ \E s \in Slot : slots[s].kind = <<"Thin", "Box">>

C10_AllocFailureIsFatal == [] C10_State /\ [][C10_Step]_vars

C10_Witness == aborted /\ \E s \in Slot : slots[s].kind = <<"Thin", "Box">> /\ heap[slots[s].ptr].st = "live"

\* C11: a CopyThin made by CopyThin::new, its copies, and into_inner on any
\* of them, any number of times in any order: every value in scope addresses
\* storage that is still there, each copy and each into_inner result has the
\* pointer of the value it came from, and none of these steps releases,
\* allocates or changes a count.
C11_State ==
  /\ ub = {}
  /\ ~aborted
  /\ \A s \in Slot : slots[s] # Empty => PointeeAlive(slots[s])
  /\ \A s \in Slot : (slots[s] # Empty /\ Head(slots[s].kind) = "CopyThin") => IsCopy(Tail(slots[s].kind))

C11_Step ==
  /\ \A s \in Slot : (slots[s] # Empty /\ slots'[s].kind = <<"CopyThin">> \o slots[s].kind) =>
       (slots'[s].ptr = slots[s].ptr /\ UNCHANGED <<heap, zst, ub, aborted>>)
  /\ \A s \in Slot : (slots[s] # Empty /\ Head(slots[s].kind) = "CopyThin" /\ IsUnwrapStep(s)) =>
       (slots'[s].ptr = slots[s].ptr /\ UNCHANGED <<heap, zst, ub, aborted>>)
  /\ \A t \in Slot : (slots[t] = Empty /\ slots'[t] # Empty /\ Head(slots'[t].kind) = "CopyThin") =>
       /\ \E s \in Slot : slots[s] = slots'[t] /\ slots'[s] = slots[s]
       /\ UNCHANGED <<heap, zst, ub, aborted>>

C11_CopyThinCopiesIndependent == [] C11_State /\ [][C11_Step]_vars

C11_Witness == \E s, t, u \in Slot : s # t /\ slots[s].kind = <<"CopyThin", "Ref">> /\ slots[t].kind = <<"Ref">> /\ slots[u].kind = <<"Ref">> /\ u \notin {s, t} /\ slots[t].ptr = slots[s].ptr /\ slots[u].ptr = slots[s].ptr

\* C12: a copy of a RawThin<P> (Copy, Clone, or clone_ptr where P is itself
\* a RawThin and so duplicates by pass-through) has the source's pointer and
\* leaves storage and counts as they were; a new RawThin<Box> or RawThin<Rc>
\* that is not such a copy comes from clone_ptr and stands for one more unit
\* (one more count at the same address, or a new allocation holding the
\* same value).  Handles outnumber units only after into_inner on a RawThin,
\* and a double release happens only where they do.
C12_Owners(a) == {s \in Holders(a) : \A i \in 1..Len(slots[s].kind) : slots[s].kind[i] \notin {"RawThin", "CopyThin"}}

C12_Over == \E a \in Addr : Cardinality(C12_Owners(a)) > Units(a)

C12_Step ==
  /\ \A s, t \in Slot : CopyValue(s, t) => (slots'[t] = slots[s] /\ slots'[s] = slots[s] /\ UNCHANGED <<heap, zst, ub, aborted>>)
  /\ \A t \in Slot : (slots[t] = Empty /\ slots'[t] # Empty /\ Head(slots'[t].kind) = "RawThin") =>
       \E s \in Slot :
         /\ slots[s] # Empty /\ slots'[s] = slots[s] /\ slots'[t].kind = slots[s].kind
         /\ \/ slots'[t].ptr = slots[s].ptr /\ UNCHANGED <<heap, zst, ub, aborted>>
            \/ /\ slots[s].kind = <<"RawThin", "Rc">>
               /\ slots'[t].ptr = slots[s].ptr
               /\ IF Touchable(Machine, slots[s].ptr) THEN heap' = [heap EXCEPT ![slots[s].ptr].cnt = @ + 1] /\ ub' = ub ELSE ub' # {}
            \/ /\ slots[s].kind = <<"RawThin", "Box">>
               /\ slots'[t].ptr # slots[s].ptr
               /\ heap[slots'[t].ptr].st = "unused"
               /\ IF Touchable(Machine, slots[s].ptr) THEN heap' = [heap EXCEPT ![slots'[t].ptr] = [heap[slots[s].ptr] EXCEPT !.drops = 0]] /\ ub' = ub ELSE ub' # {}
  /\ (~C12_Over /\ C12_Over') => \E s \in Slot : slots[s] # Empty /\ Head(slots[s].kind) = "RawThin" /\ IsUnwrapStep(s)
  /\ "double_free" \in ub' => C12_Over

C12_RawThinCopyKeepsUnits == [][C12_Step]_vars

C12_Witness == "double_free" \in ub /\ \E a \in Addr : heap[a].drops = 2

\* C13: after t2 = t1.clone() the source is as it was and both are live on
\* their own unit: for Box t2 addresses fresh storage with an equal value,
\* for Rc / Arc the same storage with the count one higher, for &T the same
\* referent.  Releasing either of two live Thins (by drop, or by into_inner
\* and dropping the handle) leaves the other one's storage in place.
C13_AliveIn(m, x) == IF Base(x.kind) = "BoxZ" THEN m.zst.live > 0 ELSE Touchable(m, x.ptr)

C13_State ==
  \A s, t \in Slot : (s # t /\ slots[s] # Empty /\ slots[t] # Empty /\ Head(slots[s].kind) = "Thin" /\ Head(slots[t].kind) = "Thin") =>
    LET m == DropValue(Machine, slots[s].kind, slots[s].ptr)
        n == DropValue(Machine, Tail(slots[s].kind), slots[s].ptr)
    IN m.ub = {} /\ C13_AliveIn(m, slots[t]) /\ n.ub = {} /\ C13_AliveIn(n, slots[t])

C13_Step ==
  \A t \in Slot : IsCloneStep(t) =>
    /\ ub' = {}
    /\ \E s \in Slot :
         /\ slots[s] # Empty /\ slots'[s] = slots[s] /\ slots'[t].kind = slots[s].kind
         /\ C13_AliveIn(Machine, slots[s])
         /\ CASE Base(slots[s].kind) = "Box" ->
                   /\ slots'[t].ptr # slots[s].ptr
                   /\ heap[slots'[t].ptr].st = "unused"
                   /\ heap' = [heap EXCEPT ![slots'[t].ptr] = heap[slots[s].ptr]]
              [] Base(slots[s].kind) \in {"Rc", "Arc"} ->
                   /\ slots'[t].ptr = slots[s].ptr
                   /\ heap' = [heap EXCEPT ![slots[s].ptr].cnt = @ + 1]
              [] Base(slots[s].kind) = "BoxZ" ->
                   /\ slots'[t].ptr = slots[s].ptr
                   /\ heap' = heap /\ zst'.live = zst.live + 1
              [] OTHER ->
                   /\ slots'[t].ptr = slots[s].ptr
                   /\ heap' = heap /\ zst' = zst

C13_CloneIsIndependentUnit == [] C13_State /\ [][C13_Step]_vars

\* C14: dropping a Thin<P> where P is a reference, a RawThin or a CopyThin
\* changes nothing but the Thin's own going away; for every other P the
\* effect is that of destroying one P rebuilt from the pointer, once: a live
\* Box freed, a live Rc / Arc count taken down by one (freed at zero), one
\* destructor run of a zero-size Box.
C14_Step ==
  \A s \in Slot : (IsDropStep(s) /\ Head(slots[s].kind) = "Thin") =>
    LET P == Tail(slots[s].kind)
        p == slots[s].ptr
    IN /\ \A t \in Slot : t # s => slots'[t] = slots[t]
       /\ IF Head(P) \in {"Ref", "MutRef", "RawThin", "CopyThin"}
          THEN UNCHANGED <<heap, zst, ub, aborted>>
          ELSE /\ [heap |-> heap', zst |-> zst', ub |-> ub'] = DropValue(Machine, P, p)
               /\ (Head(P) \in {"Box", "Rc", "Arc"} /\ Touchable(Machine, p)) => (heap' = ReleasedOnce(heap, p) /\ zst' = zst /\ ub' = ub)
               /\ Head(P) = "BoxZ" => (heap' = heap /\ zst'.drops = zst.drops + 1)
               /\ UNCHANGED aborted

C14_DropSkippedForNoOpKinds == [][C14_Step]_vars

C14_Witness == (\A s \in Slot : slots[s] = Empty) /\ \E a, b \in Addr : heap[a].st = "live" /\ heap[a].cnt = 0 /\ heap[b].st = "freed" /\ heap[b].drops = 1

\* C15: Box's duplication over a sized pointee allocates, then runs the
\* pointee's clone on the source, then writes the produced value into the
\* new storage, in that order and each once; the pointer it returns is the
\* new storage, which was unused before and is never the source; the source
\* storage and value are untouched throughout; and when the allocation
\* fails the pointee's clone has not run.
C15_IsPrefix(a, b) == Len(a) <= Len(b) /\ \A i \in 1..Len(a) : a[i] = b[i]

C15_State ==
  /\ ub = {}
  /\ C15_IsPrefix(pc.log, <<"alloc", "clone", "write">>)
  /\ pc.at = "layout" => pc.log = <<>>
  /\ pc.at = "allocated" => (pc.log = <<"alloc">> /\ pc.ptr # slots[pc.src].ptr /\ heap[pc.ptr].st = "live")
  /\ pc.at = "cloned" => (pc.log = <<"alloc", "clone">> /\ pc.val = heap[slots[pc.src].ptr].val)
  /\ aborted => (pc.at = "layout" /\ pc.log = <<>>)

C15_Step ==
  /\ pc.at # "idle" => (slots'[pc.src] = slots[pc.src] /\ heap'[slots[pc.src].ptr] = heap[slots[pc.src].ptr])
  /\ (pc.at = "layout" /\ pc'.at = "allocated") => heap[pc'.ptr].st = "unused"
  /\ (pc.at = "cloned" /\ pc'.at = "idle") =>
       /\ pc'.log = <<"alloc", "clone", "write">>
       /\ slots'[pc.dst] = [kind |-> <<"Thin", "Box">>, ptr |-> pc.ptr]
       /\ pc.ptr # slots[pc.src].ptr
       /\ heap' = [heap EXCEPT ![pc.ptr].val = heap[slots[pc.src].ptr].val]
  /\ (\E t \in Slot : IsCloneStep(t)) => pc.at = "cloned"

C15_BoxCloneOrder == [] C15_State /\ [][C15_Step]_vars

C15_Witness == pc.at = "idle" /\ pc.log = <<"alloc", "clone", "write">> /\ \E s, t \in Slot : slots[s].kind = <<"Thin", "Box">> /\ slots[t].kind = <<"Thin", "Box">> /\ slots[s].ptr # slots[t].ptr /\ heap[slots[s].ptr].val = 41 /\ heap[slots[t].ptr].val = 41

\* C16: every allocation Box's duplication has made is owned, by a value in
\* scope or by the call still running, or has been freed, on every path
\* including the one where the pointee's clone panics.
C16_NoStrandedStorage ==
  \A a \in Addr : heap[a].st = "live" => (pc.ptr = a \/ \E s \in Slot : slots[s] # Empty /\ slots[s].ptr = a)

====
